---- MODULE Spec2Model ----
(***************************************************************************)
(* Contract risk analyzer (app.py): clause segmentation, the per-clause    *)
(* rule engine, the analysis loop with its report and log record, the      *)
(* template similarity scorer in binary64 arithmetic, and two runs of the  *)
(* script that overlap in time.                                            *)
(*                                                                         *)
(* Text is a sequence of one-character strings, so that substring tests,   *)
(* trimming, splitting and formatting are computed on characters.          *)
(***************************************************************************)
EXTENDS Integers, Sequences, FiniteSets, TLC

VARIABLES
    \* segmentation of a document
    doc, nPieces, segClauses, reseg, segPc,
    \* the rule engine on one clause
    clause, nWords, intent, risks, level, vague, rulePc,
    \* one run of the script on an uploaded file
    file, pPc, text, detected, contractType, parties, pClauses, idx, high_count,
    shown, report, overall, pdf, logRec,
    \* one call of similarity_score
    simClause, fused, simPc, vectorizer, counts, tfidf, normed, sims, score,
    \* two runs of the script at the same time, and the files they write
    rPc, rClauses, rIdx, rHigh, rVectorizer, rCounts, rScores, rReport, rDownload,
    rLogName, reportPdf, logFiles, now

segVars == <<doc, nPieces, segClauses, reseg, segPc>>
ruleVars == <<clause, nWords, intent, risks, level, vague, rulePc>>
pipeVars == <<file, pPc, text, detected, contractType, parties, pClauses, idx, high_count,
             shown, report, overall, pdf, logRec>>
simVars == <<simClause, fused, simPc, vectorizer, counts, tfidf, normed, sims, score>>
concVars == <<rPc, rClauses, rIdx, rHigh, rVectorizer, rCounts, rScores, rReport, rDownload,
             rLogName, reportPdf, logFiles, now>>
vars == <<segVars, ruleVars, pipeVars, simVars, concVars>>

notSeg == <<ruleVars, pipeVars, simVars, concVars>>
notRule == <<segVars, pipeVars, simVars, concVars>>
notPipe == <<segVars, ruleVars, simVars, concVars>>
notSim == <<segVars, ruleVars, pipeVars, concVars>>
notConc == <<segVars, ruleVars, pipeVars, simVars>>

SegIdle ==
    /\ doc = <<>>
    /\ nPieces = 0
    /\ segClauses = <<>>
    /\ reseg = <<>>
    /\ segPc = "idle"

RuleIdle ==
    /\ clause = <<>>
    /\ nWords = 0
    /\ intent = "none"
    /\ risks = <<>>
    /\ level = "none"
    /\ vague = <<>>
    /\ rulePc = "idle"

PipeIdle ==
    /\ file = [kind |-> "txt", readable |-> TRUE, body |-> <<>>]
    /\ pPc = "idle"
    /\ text = <<>>
    /\ detected = "none"
    /\ contractType = "none"
    /\ parties = <<>>
    /\ pClauses = <<>>
    /\ idx = 0
    /\ high_count = 0
    /\ shown = <<>>
    /\ report = <<>>
    /\ overall = "none"
    /\ pdf = <<>>
    /\ logRec = [risk |-> "none", clauses |-> 0, parties |-> <<>>]

\* a TfidfVectorizer that was never fitted
Unfitted == [vocabulary |-> <<>>, idf |-> <<>>]

SimIdle ==
    /\ simClause = <<>>
    /\ fused = FALSE
    /\ simPc = "idle"
    /\ vectorizer = Unfitted
    /\ counts = <<>>
    /\ tfidf = <<>>
    /\ normed = <<>>
    /\ sims = <<>>
    /\ score = [m |-> <<>>, e |-> 0]

\* the script runs that overlap in time
Runs == {"A", "B"}

ConcIdle ==
    /\ rPc = [r \in Runs |-> "idle"]
    /\ rClauses = [r \in Runs |-> <<>>]
    /\ rIdx = [r \in Runs |-> 0]
    /\ rHigh = [r \in Runs |-> 0]
    /\ rVectorizer = [r \in Runs |-> Unfitted]
    /\ rCounts = [r \in Runs |-> <<>>]
    /\ rScores = [r \in Runs |-> <<>>]
    /\ rReport = [r \in Runs |-> <<>>]
    /\ rDownload = [r \in Runs |-> <<>>]
    /\ rLogName = [r \in Runs |-> 0]
    /\ reportPdf = <<>>
    /\ logFiles = <<>>
    /\ now = 0

(***************************************************************************)
(* Characters and strings                                                  *)
(***************************************************************************)

\* str.strip() and the regex class \s agree on these characters
IsSpace(c) == c \in {" ", "\t", "\n", "\r", "\f"}

Min(S) == CHOOSE x \in S : \A y \in S : x <= y

Max(S) == CHOOSE x \in S : \A y \in S : y <= x

\* p.strip(): drop leading and trailing whitespace
Strip(s) ==
    LET solid == {k \in 1..Len(s) : ~IsSpace(s[k])}
    IN  IF solid = {} THEN <<>> ELSE SubSeq(s, Min(solid), Max(solid))

(***************************************************************************)
(* split_clauses                                                           *)
(***************************************************************************)

MinClauseLen == 40

\* the last index of the maximal whitespace run s[i..], or i-1 when s[i] is not whitespace
WsRunEnd(s, i) ==
    Min({j \in i..(Len(s) + 1) : j > Len(s) \/ ~IsSpace(s[j])}) - 1

\* where a match of \n\s*\n starting at i ends: \s* is greedy and gives back
\* characters until a final \n fits; 0 when nothing matches at i
MatchEnd(s, i) ==
    IF s[i] # "\n" THEN 0
    ELSE LET nls == {e \in (i + 1)..WsRunEnd(s, i + 1) : s[e] = "\n"}
         IN  IF nls = {} THEN 0 ELSE Max(nls)

\* re.split(r'\n\s*\n', text): the pieces between the leftmost non-overlapping matches,
\* searched from p, where the current piece starts
RECURSIVE ReSplitFrom(_, _)
ReSplitFrom(s, p) ==
    LET starts == {q \in p..Len(s) : MatchEnd(s, q) # 0}
    IN  IF starts = {} THEN <<SubSeq(s, p, Len(s))>>
        ELSE LET q == Min(starts)
             IN  <<SubSeq(s, p, q - 1)>> \o ReSplitFrom(s, MatchEnd(s, q) + 1)

ReSplit(s) == ReSplitFrom(s, 1)

\* the comprehension's filter, len(p.strip()) > 40, as a plausible slip would write it
KeepUntrimmed(p) == Len(p) > MinClauseLen

KeepInclusive(p) == Len(Strip(p)) >= MinClauseLen

Keep(p) == Len(Strip(p)) > MinClauseLen

RECURSIVE StripAndFilter(_)
StripAndFilter(parts) ==
    IF parts = <<>> THEN <<>>
    ELSE IF Keep(Head(parts)) THEN <<Strip(Head(parts))>> \o StripAndFilter(Tail(parts))
    ELSE StripAndFilter(Tail(parts))

split_clauses(t) == StripAndFilter(ReSplit(t))

(***************************************************************************)
(* Segmentation of documents put together from pieces                      *)
(***************************************************************************)

MaxPieces == 7

Filler == [k \in 1..MinClauseLen |-> "a"]

DocPieces == {<<"\n">>, <<" ">>, <<"x">>, Filler}

\* "\n\n".join(clauses)
RECURSIVE JoinBlank(_)
JoinBlank(cs) ==
    IF cs = <<>> THEN <<>>
    ELSE IF Len(cs) = 1 THEN cs[1]
    ELSE cs[1] \o <<"\n", "\n">> \o JoinBlank(Tail(cs))

SegInit ==
    /\ doc = <<>>
    /\ nPieces = 0
    /\ segClauses = <<>>
    /\ reseg = <<>>
    /\ segPc = "build"
    /\ RuleIdle
    /\ PipeIdle
    /\ SimIdle
    /\ ConcIdle

AppendPiece ==
    /\ segPc = "build"
    /\ nPieces < MaxPieces
    /\ \E p \in DocPieces : doc' = doc \o p
    /\ nPieces' = nPieces + 1
    /\ UNCHANGED <<segClauses, reseg, segPc, notSeg>>

Segment ==
    /\ segPc = "build"
    /\ segClauses' = split_clauses(doc)
    /\ segPc' = "split"
    /\ UNCHANGED <<doc, nPieces, reseg, notSeg>>

Resegment ==
    /\ segPc = "split"
    /\ reseg' = split_clauses(JoinBlank(segClauses))
    /\ segPc' = "resplit"
    /\ UNCHANGED <<doc, nPieces, segClauses, notSeg>>

SegNext == AppendPiece \/ Segment \/ Resegment

SpecSegment == SegInit /\ [][SegNext]_vars

(***************************************************************************)
(* A description of segmentation by lines, independent of the regex        *)
(***************************************************************************)

\* text.split("\n")
RECURSIVE LinesFrom(_, _)
LinesFrom(s, p) ==
    LET nls == {q \in p..Len(s) : s[q] = "\n"}
    IN  IF nls = {} THEN <<SubSeq(s, p, Len(s))>>
        ELSE <<SubSeq(s, p, Min(nls) - 1)>> \o LinesFrom(s, Min(nls) + 1)

IsBlank(line) == \A k \in 1..Len(line) : IsSpace(line[k])

\* the paragraphs: maximal runs of consecutive non-blank lines, each run joined by "\n";
\* cur is the run being collected
RECURSIVE Paragraphs(_, _)
Paragraphs(lines, cur) ==
    IF lines = <<>> THEN (IF cur = <<>> THEN <<>> ELSE <<cur>>)
    ELSE IF IsBlank(Head(lines))
         THEN (IF cur = <<>> THEN <<>> ELSE <<cur>>) \o Paragraphs(Tail(lines), <<>>)
         ELSE Paragraphs(Tail(lines),
                         IF cur = <<>> THEN Head(lines) ELSE cur \o <<"\n">> \o Head(lines))

RECURSIVE LongTrimmed(_)
LongTrimmed(ps) ==
    IF ps = <<>> THEN <<>>
    ELSE IF Len(Strip(Head(ps))) > MinClauseLen
         THEN <<Strip(Head(ps))>> \o LongTrimmed(Tail(ps))
         ELSE LongTrimmed(Tail(ps))

ExpectedClauses(t) == LongTrimmed(Paragraphs(LinesFrom(t, 1), <<>>))

\* C5: split_clauses returns, in document order, exactly the blank-line-separated
\* fragments whose trimmed length exceeds 40, each trimmed; every returned clause is
\* longer than 40 characters and an empty document yields no clause.
C5_SegmenterKeepsLongFragments ==
    segPc # "build" =>
        /\ segClauses = ExpectedClauses(doc)
        /\ \A k \in 1..Len(segClauses) :
              /\ Len(segClauses[k]) > MinClauseLen
              /\ ~IsSpace(segClauses[k][1])
              /\ ~IsSpace(segClauses[k][Len(segClauses[k])])
        /\ (doc = <<>> => segClauses = <<>>)

\* a document with a fragment of trimmed length exactly 40 (dropped) before a blank
\* line and a fragment of length 41 (kept) after it
C5_Witness ==
    /\ segPc = "split"
    /\ doc = Filler \o <<" ", "\n", "\n">> \o Filler \o <<"x">>
    /\ segClauses = <<Filler \o <<"x">>>>

\* C6: joining the clauses with blank lines and segmenting again gives the same clauses.
C6_SegmenterIdempotent ==
    segPc = "resplit" => reseg = segClauses

\* two clauses, one of them with a line break inside, survive the round trip
C6_Witness ==
    /\ segPc = "resplit"
    /\ Len(segClauses) = 2
    /\ \E k \in 1..Len(segClauses[1]) : segClauses[1][k] = "\n"
    /\ reseg = segClauses

(***************************************************************************)
(* The rule engine: intent, ambiguity, risk categories, clause risk level  *)
(***************************************************************************)

UpperLetters == <<"A", "B", "C", "D", "E", "F", "G", "H", "I", "J", "K", "L", "M",
    "N", "O", "P", "Q", "R", "S", "T", "U", "V", "W", "X", "Y", "Z">>

LowerLetters == <<"a", "b", "c", "d", "e", "f", "g", "h", "i", "j", "k", "l", "m",
    "n", "o", "p", "q", "r", "s", "t", "u", "v", "w", "x", "y", "z">>

LowerOf == [c \in {UpperLetters[k] : k \in 1..Len(UpperLetters)} |->
    LowerLetters[CHOOSE k \in 1..Len(UpperLetters) : UpperLetters[k] = c]]

LowerChar(c) == IF c \in DOMAIN LowerOf THEN LowerOf[c] ELSE c

\* clause.lower()
Lower(s) == [k \in 1..Len(s) |-> LowerChar(s[k])]

\* p in s
Contains(s, p) ==
    \E i \in 1..(Len(s) - Len(p) + 1) : \A k \in 1..Len(p) : s[i + k - 1] = p[k]

Kw_shall_not == <<"s", "h", "a", "l", "l", " ", "n", "o", "t">>

Kw_must_not == <<"m", "u", "s", "t", " ", "n", "o", "t">>

Kw_prohibited == <<"p", "r", "o", "h", "i", "b", "i", "t", "e", "d">>

Kw_shall == <<"s", "h", "a", "l", "l">>

Kw_must == <<"m", "u", "s", "t">>

Kw_may == <<"m", "a", "y">>

Kw_entitled_to == <<"e", "n", "t", "i", "t", "l", "e", "d", " ", "t", "o">>

Kw_reasonable == <<"r", "e", "a", "s", "o", "n", "a", "b", "l", "e">>

Kw_as_soon_as_possible == <<"a", "s", " ", "s", "o", "o", "n", " ", "a", "s", " ", "p",
    "o", "s", "s", "i", "b", "l", "e">>

Kw_etc == <<"e", "t", "c">>

Kw_as_appropriate == <<"a", "s", " ", "a", "p", "p", "r", "o", "p", "r", "i", "a", "t",
    "e">>

Kw_from_time_to_time == <<"f", "r", "o", "m", " ", "t", "i", "m", "e", " ", "t", "o",
    " ", "t", "i", "m", "e">>

Kw_indemn == <<"i", "n", "d", "e", "m", "n">>

Kw_penalty == <<"p", "e", "n", "a", "l", "t", "y">>

Kw_fine == <<"f", "i", "n", "e">>

Kw_terminate_at_any_time == <<"t", "e", "r", "m", "i", "n", "a", "t", "e", " ", "a",
    "t", " ", "a", "n", "y", " ", "t", "i", "m", "e">>

Kw_without_cause == <<"w", "i", "t", "h", "o", "u", "t", " ", "c", "a", "u", "s", "e">>

Kw_arbitration == <<"a", "r", "b", "i", "t", "r", "a", "t", "i", "o", "n">>

Kw_jurisdiction == <<"j", "u", "r", "i", "s", "d", "i", "c", "t", "i", "o", "n">>

Kw_automatically_renew == <<"a", "u", "t", "o", "m", "a", "t", "i", "c", "a", "l", "l",
    "y", " ", "r", "e", "n", "e", "w">>

Kw_non_compete == <<"n", "o", "n", "-", "c", "o", "m", "p", "e", "t", "e">>

Kw_intellectual_property == <<"i", "n", "t", "e", "l", "l", "e", "c", "t", "u", "a",
    "l", " ", "p", "r", "o", "p", "e", "r", "t", "y">>

Kw_assign == <<"a", "s", "s", "i", "g", "n">>

Kw_lock_in == <<"l", "o", "c", "k", "-", "i", "n">>

Kw_cannot_terminate_before == <<"c", "a", "n", "n", "o", "t", " ", "t", "e", "r", "m",
    "i", "n", "a", "t", "e", " ", "b", "e", "f", "o", "r", "e">>

\* the decision list with the obligation test placed first
classify_intent_obligation_first(cl) ==
    LET c == Lower(cl)
    IN  IF Contains(c, Kw_shall) \/ Contains(c, Kw_must) THEN "Obligation"
        ELSE IF Contains(c, Kw_shall_not) \/ Contains(c, Kw_must_not)
                \/ Contains(c, Kw_prohibited) THEN "Prohibition"
        ELSE IF Contains(c, Kw_may) \/ Contains(c, Kw_entitled_to) THEN "Right"
        ELSE "Neutral"

classify_intent(cl) ==
    LET c == Lower(cl)
    IN  IF Contains(c, Kw_shall_not) \/ Contains(c, Kw_must_not)
           \/ Contains(c, Kw_prohibited) THEN "Prohibition"
        ELSE IF Contains(c, Kw_shall) \/ Contains(c, Kw_must) THEN "Obligation"
        ELSE IF Contains(c, Kw_may) \/ Contains(c, Kw_entitled_to) THEN "Right"
        ELSE "Neutral"

VagueWords == <<Kw_reasonable, Kw_as_soon_as_possible, Kw_etc, Kw_as_appropriate,
    Kw_from_time_to_time>>

detect_ambiguity(cl) ==
    LET c == Lower(cl)
        Found(w) == Contains(c, w)
    IN  SelectSeq(VagueWords, Found)

\* the IP rule with "or" where the code has "and"
detect_risks_ip_either(cl) ==
    LET c == Lower(cl)
        If(cond, name) == IF cond THEN <<name>> ELSE <<>>
    IN  If(Contains(c, Kw_indemn), "Indemnity")
        \o If(Contains(c, Kw_penalty) \/ Contains(c, Kw_fine), "Penalty")
        \o If(Contains(c, Kw_terminate_at_any_time) \/ Contains(c, Kw_without_cause),
              "Unilateral Termination")
        \o If(Contains(c, Kw_arbitration) \/ Contains(c, Kw_jurisdiction),
              "Arbitration/Jurisdiction")
        \o If(Contains(c, Kw_automatically_renew), "Auto Renewal")
        \o If(Contains(c, Kw_non_compete), "Non Compete")
        \o If(Contains(c, Kw_intellectual_property) \/ Contains(c, Kw_assign), "IP Transfer")
        \o If(Contains(c, Kw_lock_in) \/ Contains(c, Kw_cannot_terminate_before),
              "Lock-in Period")

detect_risks(cl) ==
    LET c == Lower(cl)
        If(cond, name) == IF cond THEN <<name>> ELSE <<>>
    IN  If(Contains(c, Kw_indemn), "Indemnity")
        \o If(Contains(c, Kw_penalty) \/ Contains(c, Kw_fine), "Penalty")
        \o If(Contains(c, Kw_terminate_at_any_time) \/ Contains(c, Kw_without_cause),
              "Unilateral Termination")
        \o If(Contains(c, Kw_arbitration) \/ Contains(c, Kw_jurisdiction),
              "Arbitration/Jurisdiction")
        \o If(Contains(c, Kw_automatically_renew), "Auto Renewal")
        \o If(Contains(c, Kw_non_compete), "Non Compete")
        \o If(Contains(c, Kw_intellectual_property) /\ Contains(c, Kw_assign), "IP Transfer")
        \o If(Contains(c, Kw_lock_in) \/ Contains(c, Kw_cannot_terminate_before),
              "Lock-in Period")

\* High only from three categories on
risk_level_high_from_three(rs) ==
    IF Len(rs) = 0 THEN "Low"
    ELSE IF Len(rs) <= 2 THEN "Medium"
    ELSE "High"

risk_level(rs) ==
    IF Len(rs) = 0 THEN "Low"
    ELSE IF Len(rs) = 1 THEN "Medium"
    ELSE "High"

(***************************************************************************)
(* The loop body's classifiers applied to one clause put together from     *)
(* words                                                                   *)
(***************************************************************************)

MaxIntentWords == 4

MaxRiskWords == 3

IntentWords == {Kw_shall, <<" ", "n", "o", "t">>, Kw_must, Kw_prohibited, Kw_may,
    Kw_entitled_to, <<"S", "h", "a", "l", "l", " ", "N", "O", "T">>, <<" ">>}

RiskWords == {Kw_indemn, Kw_penalty, Kw_fine, Kw_terminate_at_any_time, Kw_without_cause,
    Kw_arbitration, Kw_jurisdiction, Kw_automatically_renew, Kw_non_compete,
    Kw_intellectual_property, Kw_assign, Kw_lock_in, Kw_cannot_terminate_before,
    <<"P", "e", "n", "a", "l", "t", "y">>, <<" ">>,
    <<"m", "u", "s", "t", " ", "b", "e", " ">> \o Kw_reasonable}

RuleInit ==
    /\ clause = <<>>
    /\ nWords = 0
    /\ intent = "none"
    /\ risks = <<>>
    /\ level = "none"
    /\ vague = <<>>
    /\ rulePc = "build"
    /\ SegIdle
    /\ PipeIdle
    /\ SimIdle
    /\ ConcIdle

AppendIntentWord ==
    /\ rulePc = "build"
    /\ nWords < MaxIntentWords
    /\ \E w \in IntentWords : clause' = clause \o w
    /\ nWords' = nWords + 1
    /\ UNCHANGED <<intent, risks, level, vague, rulePc, notRule>>

AppendRiskWord ==
    /\ rulePc = "build"
    /\ nWords < MaxRiskWords
    /\ \E w \in RiskWords : clause' = clause \o w
    /\ nWords' = nWords + 1
    /\ UNCHANGED <<intent, risks, level, vague, rulePc, notRule>>

\* lines 203-206 of the loop body
Analyze ==
    /\ rulePc = "build"
    /\ intent' = classify_intent(clause)
    /\ risks' = detect_risks(clause)
    /\ level' = risk_level(detect_risks(clause))
    /\ vague' = detect_ambiguity(clause)
    /\ rulePc' = "analyzed"
    /\ UNCHANGED <<clause, nWords, notRule>>

IntentNext == AppendIntentWord \/ Analyze

RiskNext == AppendRiskWord \/ Analyze

SpecIntent == RuleInit /\ [][IntentNext]_vars

SpecRisk == RuleInit /\ [][RiskNext]_vars

(***************************************************************************)
(* Properties of the classifiers                                           *)
(***************************************************************************)

\* the same letter, whatever its case
CasePairs == {{UpperLetters[k], LowerLetters[k]} : k \in 1..Len(UpperLetters)}

SameLetter(a, b) == a = b \/ {a, b} \in CasePairs

\* the marker occurs in the text, letters compared without regard to case
Occurs(marker, txt) ==
    \E i \in 1..(Len(txt) - Len(marker) + 1) :
        \A k \in 1..Len(marker) : SameLetter(txt[i + k - 1], marker[k])

ProhibitionMarkers == {Kw_shall_not, Kw_must_not, Kw_prohibited}

ObligationMarkers == {Kw_shall, Kw_must}

RightMarkers == {Kw_may, Kw_entitled_to}

AnyOccurs(markers, txt) == \E m \in markers : Occurs(m, txt)

\* C3: classify_intent gives exactly one of the four labels, by first match in the
\* order prohibition, obligation, right, else Neutral, markers matched without regard
\* to case; a prohibition marker wins over obligation and right markers.
C3_IntentFirstMatch ==
    rulePc = "analyzed" =>
        /\ intent \in {"Prohibition", "Obligation", "Right", "Neutral"}
        /\ intent = (IF AnyOccurs(ProhibitionMarkers, clause) THEN "Prohibition"
                     ELSE IF AnyOccurs(ObligationMarkers, clause) THEN "Obligation"
                     ELSE IF AnyOccurs(RightMarkers, clause) THEN "Right"
                     ELSE "Neutral")

\* "shall not" in capitals together with "may": Prohibition
C3_Witness ==
    /\ rulePc = "analyzed"
    /\ Occurs(Kw_shall_not, clause)
    /\ ~Contains(clause, Kw_shall_not)
    /\ Occurs(Kw_may, clause)
    /\ intent = "Prohibition"

Taxonomy == <<"Indemnity", "Penalty", "Unilateral Termination",
    "Arbitration/Jurisdiction", "Auto Renewal", "Non Compete", "IP Transfer",
    "Lock-in Period">>

TaxIndex(cat) == CHOOSE k \in 1..Len(Taxonomy) : Taxonomy[k] = cat

\* the rule table of the risk detector
RuleHolds(cat, txt) ==
    CASE cat = "Indemnity" -> Occurs(Kw_indemn, txt)
      [] cat = "Penalty" -> Occurs(Kw_penalty, txt) \/ Occurs(Kw_fine, txt)
      [] cat = "Unilateral Termination" ->
            Occurs(Kw_terminate_at_any_time, txt) \/ Occurs(Kw_without_cause, txt)
      [] cat = "Arbitration/Jurisdiction" ->
            Occurs(Kw_arbitration, txt) \/ Occurs(Kw_jurisdiction, txt)
      [] cat = "Auto Renewal" -> Occurs(Kw_automatically_renew, txt)
      [] cat = "Non Compete" -> Occurs(Kw_non_compete, txt)
      [] cat = "IP Transfer" ->
            Occurs(Kw_intellectual_property, txt) /\ Occurs(Kw_assign, txt)
      [] cat = "Lock-in Period" ->
            Occurs(Kw_lock_in, txt) \/ Occurs(Kw_cannot_terminate_before, txt)

InTaxonomy(cat) == \E k \in 1..Len(Taxonomy) : Taxonomy[k] = cat

\* C4: detect_risks returns categories of the taxonomy only, none twice, in table
\* order wherever the patterns occur in the text, and a category is listed exactly
\* when its rule matches (IP Transfer only with both of its patterns).
C4_RisksInTableOrder ==
    rulePc = "analyzed" =>
        /\ \A k \in 1..Len(risks) : InTaxonomy(risks[k])
        /\ \A j, k \in 1..Len(risks) : j < k => TaxIndex(risks[j]) < TaxIndex(risks[k])
        /\ \A t \in 1..Len(Taxonomy) :
              (\E k \in 1..Len(risks) : risks[k] = Taxonomy[t])
                  <=> RuleHolds(Taxonomy[t], clause)

\* the patterns in the reverse of the table order, and "assign" alone
C4_Witness ==
    /\ rulePc = "analyzed"
    /\ clause = Kw_lock_in \o Kw_assign \o Kw_indemn
    /\ risks = <<"Indemnity", "Lock-in Period">>

\* C2: the clause risk level is decided by the number of categories alone: none Low,
\* one Medium, two or more High, whatever the intent and the ambiguity findings.
C2_LevelFromCategoryCount ==
    rulePc = "analyzed" =>
        /\ (Len(risks) = 0 => level = "Low")
        /\ (Len(risks) = 1 => level = "Medium")
        /\ (Len(risks) >= 2 => level = "High")

\* two categories in an obligation clause with a vague word
C2_Witness ==
    /\ rulePc = "analyzed"
    /\ Len(risks) = 2
    /\ level = "High"
    /\ intent = "Obligation"
    /\ vague # <<>>

(***************************************************************************)
(* The script's run on an uploaded file (lines 186-248)                    *)
(***************************************************************************)

Hi_terminate == <<"U+0938", "U+092E", "U+093E", "U+092A", "U+094D", "U+0924">>

En_terminate == <<"t", "e", "r", "m", "i", "n", "a", "t", "e">>

Hi_automatically_renew == <<"U+0938", "U+094D", "U+0935", "U+0924", "U+0903", " ",
    "U+0928", "U+0935", "U+0940", "U+0928", "U+0940", "U+0915", "U+0930", "U+0923">>

En_automatically_renew == <<"a", "u", "t", "o", "m", "a", "t", "i", "c", "a", "l", "l",
    "y", " ", "r", "e", "n", "e", "w">>

Hi_indemnity == <<"U+0915", "U+094D", "U+0937", "U+0924", "U+093F", "U+092A", "U+0942",
    "U+0930", "U+094D", "U+0924", "U+093F">>

En_indemnity == <<"i", "n", "d", "e", "m", "n", "i", "t", "y">>

Hi_confidential == <<"U+0917", "U+094B", "U+092A", "U+0928", "U+0940", "U+092F">>

En_confidential == <<"c", "o", "n", "f", "i", "d", "e", "n", "t", "i", "a", "l">>

Hi_rights == <<"U+0905", "U+0927", "U+093F", "U+0915", "U+093E", "U+0930">>

En_rights == <<"r", "i", "g", "h", "t", "s">>

ParaHigh == <<"E", "m", "p", "l", "o", "y", "e", "e", " ", "s", "h", "a", "l", "l",
    " ", "i", "n", "d", "e", "m", "n", "i", "f", "y", " ", "E", "m", "p", "l", "o",
    "y", "e", "r", " ", "f", "o", "r", " ", "a", "n", "y", " ", "p", "e", "n", "a",
    "l", "t", "y", " ", "a", "r", "i", "s", "i", "n", "g", " ", "f", "r", "o", "m",
    " ", "b", "r", "e", "a", "c", "h", ".">>

ParaMedium == <<"T", "h", "e", " ", "s", "u", "p", "p", "l", "i", "e", "r", " ", "m",
    "a", "y", " ", "t", "e", "r", "m", "i", "n", "a", "t", "e", " ", "a", "t", " ",
    "a", "n", "y", " ", "t", "i", "m", "e", " ", "a", "f", "t", "e", "r", " ", "t",
    "h", "e", " ", "f", "i", "r", "s", "t", " ", "d", "e", "l", "i", "v", "e", "r",
    "y", ".">>

ParaLow == <<"E", "m", "p", "l", "o", "y", "e", "e", " ", "s", "h", "a", "l", "l", " ",
    "n", "o", "t", " ", "d", "i", "s", "c", "l", "o", "s", "e", " ", "c", "o", "n",
    "f", "i", "d", "e", "n", "t", "i", "a", "l", " ", "i", "n", "f", "o", "r", "m",
    "a", "t", "i", "o", "n", ".">>

ParaShort == <<"S", "i", "g", "n", "e", "d", " ", "b", "y", " ", "b", "o", "t", "h",
    " ", "p", "a", "r", "t", "i", "e", "s", ".">>

ParaHindi == <<"U+0938", "U+094D", "U+0935", "U+0924", "U+0903", " ", "U+0928",
    "U+0935", "U+0940", "U+0928", "U+0940", "U+0915", "U+0930", "U+0923", " ", "a",
    "n", "d", " ", "U+0915", "U+094D", "U+0937", "U+0924", "U+093F", "U+092A",
    "U+0942", "U+0930", "U+094D", "U+0924", "U+093F", " ", "a", "p", "p", "l", "y",
    " ", "t", "o", " ", "t", "h", "i", "s", " ", "A", "g", "r", "e", "e", "m", "e",
    "n", "t", ".">>

ReportHeader == <<"C", "O", "N", "T", "R", "A", "C", "T", " ", "S", "U", "M", "M", "A",
    "R", "Y", "\n">>

Txt_Indemnity == <<"I", "n", "d", "e", "m", "n", "i", "t", "y">>

Txt_Penalty == <<"P", "e", "n", "a", "l", "t", "y">>

Txt_UnilateralTermination == <<"U", "n", "i", "l", "a", "t", "e", "r", "a", "l", " ",
    "T", "e", "r", "m", "i", "n", "a", "t", "i", "o", "n">>

Txt_ArbitrationJurisdiction == <<"A", "r", "b", "i", "t", "r", "a", "t", "i", "o", "n",
    "/", "J", "u", "r", "i", "s", "d", "i", "c", "t", "i", "o", "n">>

Txt_AutoRenewal == <<"A", "u", "t", "o", " ", "R", "e", "n", "e", "w", "a", "l">>

Txt_NonCompete == <<"N", "o", "n", " ", "C", "o", "m", "p", "e", "t", "e">>

Txt_IPTransfer == <<"I", "P", " ", "T", "r", "a", "n", "s", "f", "e", "r">>

Txt_LockInPeriod == <<"L", "o", "c", "k", "-", "i", "n", " ", "P", "e", "r", "i", "o",
    "d">>

Txt_Low == <<"L", "o", "w">>

Txt_Medium == <<"M", "e", "d", "i", "u", "m">>

Txt_High == <<"H", "i", "g", "h">>

Kw_employee == <<"e", "m", "p", "l", "o", "y", "e", "e">>

Kw_salary == <<"s", "a", "l", "a", "r", "y">>

Kw_lease == <<"l", "e", "a", "s", "e">>

Kw_rent == <<"r", "e", "n", "t">>

Kw_vendor == <<"v", "e", "n", "d", "o", "r">>

Kw_supply == <<"s", "u", "p", "p", "l", "y">>

Kw_partner == <<"p", "a", "r", "t", "n", "e", "r">>

\* text.replace(old, new): the leftmost non-overlapping occurrences, from position p on
RECURSIVE ReplaceFrom(_, _, _, _)
ReplaceFrom(s, old, new, p) ==
    LET hits == {i \in p..(Len(s) - Len(old) + 1) :
                    \A k \in 1..Len(old) : s[i + k - 1] = old[k]}
    IN  IF hits = {} THEN SubSeq(s, p, Len(s))
        ELSE SubSeq(s, p, Min(hits) - 1) \o new
             \o ReplaceFrom(s, old, new, Min(hits) + Len(old))

Replace(s, old, new) == ReplaceFrom(s, old, new, 1)

\* the table repl, in the order of the dict
Repl == <<<<Hi_terminate, En_terminate>>,
          <<Hi_automatically_renew, En_automatically_renew>>,
          <<Hi_indemnity, En_indemnity>>,
          <<Hi_confidential, En_confidential>>,
          <<Hi_rights, En_rights>>>>

RECURSIVE ReplaceAll(_, _)
ReplaceAll(s, table) ==
    IF table = <<>> THEN s
    ELSE ReplaceAll(Replace(s, table[1][1], table[1][2]), Tail(table))

\* normalize_text; d is what detect(text) does: a language code, or "raise"
normalize_text(t, d) ==
    IF d = "raise" THEN t
    ELSE IF d = "hi" THEN ReplaceAll(t, Repl)
    ELSE t

classify_contract(t) ==
    LET c == Lower(t)
    IN  IF Contains(c, Kw_employee) \/ Contains(c, Kw_salary) THEN "Employment Agreement"
        ELSE IF Contains(c, Kw_lease) \/ Contains(c, Kw_rent) THEN "Lease Agreement"
        ELSE IF Contains(c, Kw_vendor) \/ Contains(c, Kw_supply) THEN "Vendor Contract"
        ELSE IF Contains(c, Kw_partner) THEN "Partnership Agreement"
        ELSE "Service Agreement"

\* the characters of a level or category name
Chars(name) ==
    CASE name = "Low" -> Txt_Low
      [] name = "Medium" -> Txt_Medium
      [] name = "High" -> Txt_High
      [] name = "Indemnity" -> Txt_Indemnity
      [] name = "Penalty" -> Txt_Penalty
      [] name = "Unilateral Termination" -> Txt_UnilateralTermination
      [] name = "Arbitration/Jurisdiction" -> Txt_ArbitrationJurisdiction
      [] name = "Auto Renewal" -> Txt_AutoRenewal
      [] name = "Non Compete" -> Txt_NonCompete
      [] name = "IP Transfer" -> Txt_IPTransfer
      [] name = "Lock-in Period" -> Txt_LockInPeriod

Digits == <<"0", "1", "2", "3", "4", "5", "6", "7", "8", "9">>

\* str(n) for n >= 0
RECURSIVE Str(_)
Str(n) == IF n < 10 THEN <<Digits[n + 1]>> ELSE Str(n \div 10) \o <<Digits[(n % 10) + 1]>>

\* ",".join(risks)
RECURSIVE JoinComma(_)
JoinComma(rs) ==
    IF rs = <<>> THEN <<>>
    ELSE IF Len(rs) = 1 THEN Chars(rs[1])
    ELSE Chars(rs[1]) \o <<",">> \o JoinComma(Tail(rs))

\* the report line with the loop index itself as the clause number
ReportLineZeroBased(i, lvl, rs) ==
    <<"C", "l", "a", "u", "s", "e", " ">> \o Str(i) \o <<" ", "|", " ">> \o Chars(lvl)
    \o <<" ", "|", " ">> \o JoinComma(rs) \o <<"\n">>

\* line 227; i is the loop index, from 0
ReportLine(i, lvl, rs) ==
    <<"C", "l", "a", "u", "s", "e", " ">> \o Str(i + 1) \o <<" ", "|", " ">> \o Chars(lvl)
    \o <<" ", "|", " ">> \o JoinComma(rs) \o <<"\n">>

\* High from two High clauses on
OverallHighFromTwo(hc) ==
    IF hc >= 2 THEN "High"
    ELSE IF hc > 0 THEN "Medium"
    ELSE "Low"

\* lines 229-233
Overall(hc) ==
    IF hc > 2 THEN "High"
    ELSE IF hc > 0 THEN "Medium"
    ELSE "Low"

PdfLineWidth == 95

\* create_pdf: the strings drawn, one for each piece of text.split("\n"), cut to 95
create_pdf(t) ==
    LET lines == LinesFrom(t, 1)
    IN  [k \in 1..Len(lines) |-> SubSeq(lines[k], 1, IF Len(lines[k]) < PdfLineWidth
                                                        THEN Len(lines[k])
                                                        ELSE PdfLineWidth)]

MaxParas == 3

ParaSet == {ParaHigh, ParaMedium, ParaLow, ParaShort, ParaHindi}

\* the documents of up to MaxParas paragraphs, blank lines between them
Bodies ==
    {JoinBlank(ps) : ps \in UNION {[1..n -> ParaSet] : n \in 0..MaxParas}}

\* what extract_entities finds as organisations
PartyLists == {<<>>, <<"Employer">>}

PipeInit ==
    /\ file \in [kind : {"pdf", "docx", "txt"}, readable : BOOLEAN, body : Bodies]
    /\ pPc = "start"
    /\ text = <<>>
    /\ detected = "none"
    /\ contractType = "none"
    /\ parties = <<>>
    /\ pClauses = <<>>
    /\ idx = 0
    /\ high_count = 0
    /\ shown = <<>>
    /\ report = <<>>
    /\ overall = "none"
    /\ pdf = <<>>
    /\ logRec = [risk |-> "none", clauses |-> 0, parties |-> <<>>]
    /\ SegIdle
    /\ RuleIdle
    /\ SimIdle
    /\ ConcIdle

\* read_file(file) at line 188: the extractor or the decoder returns the text, or
\* raises on a file it cannot read; nothing catches that, and the script ends
ReadFile ==
    /\ pPc = "start"
    /\ IF file.readable
       THEN text' = file.body /\ pPc' = "read"
       ELSE text' = text /\ pPc' = "aborted"
    /\ UNCHANGED <<file, detected, contractType, parties, pClauses, idx, high_count,
                   shown, report, overall, pdf, logRec, notPipe>>

\* normalize_text(...) at line 188
NormalizeText ==
    /\ pPc = "read"
    /\ \E d \in {"hi", "en", "raise"} :
          /\ detected' = d
          /\ text' = normalize_text(text, d)
    /\ pPc' = "normalized"
    /\ UNCHANGED <<file, contractType, parties, pClauses, idx, high_count,
                   shown, report, overall, pdf, logRec, notPipe>>

\* lines 189-199
Prepare ==
    /\ pPc = "normalized"
    /\ pClauses' = split_clauses(text)
    /\ contractType' = classify_contract(text)
    /\ parties' \in PartyLists
    /\ report' = ReportHeader
    /\ high_count' = 0
    /\ idx' = 0
    /\ pPc' = "loop"
    /\ UNCHANGED <<file, text, detected, shown, overall, pdf, logRec, notPipe>>

\* one pass of the loop of lines 201-227, for clause idx + 1
LoopBody ==
    /\ pPc = "loop"
    /\ idx < Len(pClauses)
    /\ LET cl == pClauses[idx + 1]
           rs == detect_risks(cl)
           lvl == risk_level(rs)
       IN  /\ high_count' = IF lvl = "High" THEN high_count + 1 ELSE high_count
           /\ shown' = Append(shown, [number |-> idx + 1,
                                       intent |-> classify_intent(cl),
                                       level |-> lvl,
                                       risks |-> rs,
                                       vague |-> detect_ambiguity(cl)])
           /\ report' = report \o ReportLine(idx, lvl, rs)
    /\ idx' = idx + 1
    /\ UNCHANGED <<file, pPc, text, detected, contractType, parties, pClauses,
                   overall, pdf, logRec, notPipe>>

\* lines 229-235
Summarize ==
    /\ pPc = "loop"
    /\ idx = Len(pClauses)
    /\ overall' = Overall(high_count)
    /\ pPc' = "summed"
    /\ UNCHANGED <<file, text, detected, contractType, parties, pClauses, idx,
                   high_count, shown, report, pdf, logRec, notPipe>>

\* lines 237-248
ExportAndLog ==
    /\ pPc = "summed"
    /\ pdf' = create_pdf(report)
    /\ logRec' = [risk |-> overall, clauses |-> Len(pClauses), parties |-> parties]
    /\ pPc' = "done"
    /\ UNCHANGED <<file, text, detected, contractType, parties, pClauses, idx,
                   high_count, shown, report, overall, notPipe>>

PipeNext == ReadFile \/ NormalizeText \/ Prepare \/ LoopBody \/ Summarize \/ ExportAndLog

SpecPipeline == PipeInit /\ [][PipeNext]_vars

(***************************************************************************)
(* Properties of the run                                                   *)
(***************************************************************************)

\* the clauses shown with risk level High among the first n processed
HighShown(n) == {k \in 1..n : shown[k].level = "High"}

\* C1: after each processed clause high_count is the number of High clauses among the
\* clauses processed so far (so it never decreases and never exceeds their number), and
\* once the loop is over the overall risk is Low for no High clause, Medium for one or
\* two, High for more than two.
C1_OverallFromHighCount ==
    /\ pPc \in {"loop", "summed", "done"} =>
          /\ Len(shown) = idx
          /\ high_count = Cardinality(HighShown(idx))
          /\ high_count <= idx
    /\ pPc \in {"summed", "done"} =>
          LET n == Cardinality(HighShown(Len(pClauses)))
          IN  /\ idx = Len(pClauses)
              /\ (n = 0 => overall = "Low")
              /\ (n \in {1, 2} => overall = "Medium")
              /\ (n > 2 => overall = "High")

\* a run over three High clauses, and so an overall High
C1_Witness ==
    /\ pPc = "done"
    /\ Len(pClauses) = 3
    /\ high_count = 3
    /\ overall = "High"

\* s.split(d) for a delimiter d, from position p on
RECURSIVE SplitOnFrom(_, _, _)
SplitOnFrom(s, d, p) ==
    LET hits == {i \in p..(Len(s) - Len(d) + 1) : \A k \in 1..Len(d) : s[i + k - 1] = d[k]}
    IN  IF hits = {} THEN <<SubSeq(s, p, Len(s))>>
        ELSE <<SubSeq(s, p, Min(hits) - 1)>> \o SplitOnFrom(s, d, Min(hits) + Len(d))

SplitOn(s, d) == SplitOnFrom(s, d, 1)

DigitValue(c) == (CHOOSE k \in 1..Len(Digits) : Digits[k] = c) - 1

IsDigit(c) == \E k \in 1..Len(Digits) : Digits[k] = c

\* the number a string of digits writes
RECURSIVE ParseNat(_)
ParseNat(ds) ==
    IF Len(ds) = 1 THEN DigitValue(ds[1])
    ELSE 10 * ParseNat(SubSeq(ds, 1, Len(ds) - 1)) + DigitValue(ds[Len(ds)])

\* the field "Clause <k>" read back: the number k, or 0 when the field is not of that form
ClauseNumber(f) ==
    LET word == <<"C", "l", "a", "u", "s", "e", " ">>
        ds == SubSeq(f, Len(word) + 1, Len(f))
    IN  IF /\ Len(f) > Len(word)
           /\ SubSeq(f, 1, Len(word)) = word
           /\ \A k \in 1..Len(ds) : IsDigit(ds[k])
           /\ ds[1] # "0"
        THEN ParseNat(ds)
        ELSE 0

\* C9: the report is the header line CONTRACT SUMMARY and then one line for each
\* clause and nothing else; the k-th of them reads "Clause k", the risk level of the
\* k-th clause of the segmenter and its categories joined by commas (an empty field
\* when it has none); the log record's clause count is the number of these lines.
C9_ReportLinePerClause ==
    pPc \in {"summed", "done"} =>
        LET lines == SplitOn(report, <<"\n">>)
            n == Len(pClauses)
        IN  /\ pClauses = split_clauses(text)
            /\ Len(lines) = n + 2
            /\ lines[1] = SubSeq(ReportHeader, 1, Len(ReportHeader) - 1)
            /\ lines[n + 2] = <<>>
            /\ \A k \in 1..n :
                  LET f == SplitOn(lines[k + 1], <<" ", "|", " ">>)
                      rs == detect_risks(pClauses[k])
                  IN  /\ Len(f) = 3
                      /\ ClauseNumber(f[1]) = k
                      /\ f[2] = Chars(risk_level(rs))
                      /\ IF rs = <<>> THEN f[3] = <<>>
                         ELSE SplitOn(f[3], <<",">>) = [j \in 1..Len(rs) |-> Chars(rs[j])]
            /\ (pPc = "done" => logRec.clauses = Len(lines) - 2)

\* a dropped short fragment between two clauses, the first without a category
C9_Witness ==
    /\ pPc = "done"
    /\ file.body = JoinBlank(<<ParaLow, ParaShort, ParaHigh>>)
    /\ Len(pClauses) = 2
    /\ logRec.clauses = 2

\* C8: a failure of a collaborator, reading the file or detecting the language, never
\* aborts the run: the run goes on to the clause analysis with the text as it was read.
C8_CollaboratorFailureNeverAborts ==
    /\ pPc # "aborted"
    /\ (detected = "raise" /\ pPc \in {"normalized", "loop", "summed", "done"}
           => text = file.body)

(***************************************************************************)
(* Binary64 arithmetic, as numpy, scipy and sklearn's compiled loops do it  *)
(*                                                                         *)
(* A natural number of any size is the sequence of its digits in base      *)
(* 2^15, least significant first, the last digit not 0 (0 is <<>>).  A      *)
(* positive double is [m, e], for m * 2^e with 2^52 <= m < 2^53; zero is   *)
(* [m |-> <<>>, e |-> 0].  Every value of the scorer is >= 0.              *)
(***************************************************************************)

LimbBits == 15

LimbBase == 2^LimbBits

MantBits == 53

RECURSIVE BnNorm(_)
BnNorm(a) ==
    IF a = <<>> THEN <<>>
    ELSE IF a[Len(a)] = 0 THEN BnNorm(SubSeq(a, 1, Len(a) - 1))
    ELSE a

BnDigit(a, i) == IF i <= Len(a) THEN a[i] ELSE 0

BnFromInt(n) ==
    BnNorm(<<n % LimbBase, (n \div LimbBase) % LimbBase, n \div (LimbBase * LimbBase)>>)

RECURSIVE BnAddFrom(_, _, _, _)
BnAddFrom(a, b, i, carry) ==
    IF i > Len(a) /\ i > Len(b)
    THEN (IF carry = 0 THEN <<>> ELSE <<carry>>)
    ELSE LET t == BnDigit(a, i) + BnDigit(b, i) + carry
         IN  <<t % LimbBase>> \o BnAddFrom(a, b, i + 1, t \div LimbBase)

BnAdd(a, b) == BnAddFrom(a, b, 1, 0)

\* a - b for a >= b
RECURSIVE BnSubFrom(_, _, _, _)
BnSubFrom(a, b, i, borrow) ==
    IF i > Len(a) THEN <<>>
    ELSE LET t == a[i] - BnDigit(b, i) - borrow
         IN  IF t < 0 THEN <<t + LimbBase>> \o BnSubFrom(a, b, i + 1, 1)
             ELSE <<t>> \o BnSubFrom(a, b, i + 1, 0)

BnSub(a, b) == BnNorm(BnSubFrom(a, b, 1, 0))

\* a < b
BnLess(a, b) ==
    IF Len(a) # Len(b) THEN Len(a) < Len(b)
    ELSE LET diff == {i \in 1..Len(a) : a[i] # b[i]}
         IN  diff # {} /\ a[Max(diff)] < b[Max(diff)]

\* a * d for one digit d
RECURSIVE BnMulDigitFrom(_, _, _, _)
BnMulDigitFrom(a, d, i, carry) ==
    IF i > Len(a) THEN (IF carry = 0 THEN <<>> ELSE <<carry>>)
    ELSE LET t == a[i] * d + carry
         IN  <<t % LimbBase>> \o BnMulDigitFrom(a, d, i + 1, t \div LimbBase)

BnMulDigit(a, d) == IF d = 0 THEN <<>> ELSE BnMulDigitFrom(a, d, 1, 0)

BnShiftDigits(a, n) == IF a = <<>> THEN <<>> ELSE [i \in 1..n |-> 0] \o a

RECURSIVE BnMulFrom(_, _, _)
BnMulFrom(a, b, i) ==
    IF i > Len(b) THEN <<>>
    ELSE BnAdd(BnShiftDigits(BnMulDigit(a, b[i]), i - 1), BnMulFrom(a, b, i + 1))

BnMul(a, b) == BnMulFrom(a, b, 1)

\* a * 2^k
BnShl(a, k) == BnShiftDigits(BnMulDigit(a, 2^(k % LimbBits)), k \div LimbBits)

\* a \div 2^k
BnShr(a, k) ==
    LET q == k \div LimbBits
        r == k % LimbBits
        n == Len(a) - q
    IN  IF n <= 0 THEN <<>>
        ELSE BnNorm([i \in 1..n |->
                 (a[q + i] \div 2^r) + (BnDigit(a, q + i + 1) % 2^r) * 2^(LimbBits - r)])

\* the number of bits of a
BnBitLen(a) ==
    IF a = <<>> THEN 0
    ELSE (Len(a) - 1) * LimbBits + Min({n \in 1..LimbBits : a[Len(a)] < 2^n})

BnIsOdd(a) == a # <<>> /\ a[1] % 2 = 1

\* one step of long division in base 2: bit k of the quotient
DivStep(st, k) ==
    LET t == BnShl(st.b, k)
    IN  IF BnLess(st.r, t) THEN st
        ELSE [q |-> BnAdd(st.q, BnShl(<<1>>, k)), r |-> BnSub(st.r, t), b |-> st.b]

\* bits k down to lo of the quotient
RECURSIVE DivBits(_, _, _)
DivBits(st, k, lo) ==
    IF k < lo THEN st
    ELSE LET next == DivStep(st, k)
         IN  IF next.r = <<>> THEN next ELSE DivBits(next, k - 1, lo)

\* bits k down to 0, eight at a time
RECURSIVE DivBytes(_, _)
DivBytes(st, k) ==
    IF k < 0 \/ st.r = <<>> THEN st
    ELSE LET lo == IF k >= 8 THEN k - 7 ELSE 0
             next == DivBits(st, k, lo)
         IN  IF next.r = <<>> THEN next ELSE DivBytes(next, lo - 1)

\* <<quotient, remainder>> of a by b
BnDivMod(a, b) ==
    IF BnLess(a, b) THEN <<<<>>, a>>
    ELSE LET st == DivBytes([q |-> <<>>, r |-> a, b |-> b], BnBitLen(a) - BnBitLen(b))
         IN  <<st.q, st.r>>

\* one step of the square root in base 2, bit k of the root; r is a - root^2, and
\* (root + 2^k)^2 <= a exactly when 2^(k+1) * root + 2^(2k) <= r
SqrtStep(st, k) ==
    LET t == BnAdd(BnShl(st.root, k + 1), BnShl(<<1>>, 2 * k))
    IN  IF BnLess(st.r, t) THEN st
        ELSE [root |-> BnAdd(st.root, BnShl(<<1>>, k)), r |-> BnSub(st.r, t)]

RECURSIVE SqrtBits(_, _, _)
SqrtBits(st, k, lo) ==
    IF k < lo THEN st
    ELSE LET next == SqrtStep(st, k)
         IN  IF next.r = <<>> THEN next ELSE SqrtBits(next, k - 1, lo)

RECURSIVE SqrtBytes(_, _)
SqrtBytes(st, k) ==
    IF k < 0 \/ st.r = <<>> THEN st
    ELSE LET lo == IF k >= 8 THEN k - 7 ELSE 0
             next == SqrtBits(st, k, lo)
         IN  IF next.r = <<>> THEN next ELSE SqrtBytes(next, lo - 1)

\* <<root, remainder>>: the integer square root of a and a - root^2
BnSqrtRem(a) ==
    LET st == SqrtBytes([root |-> <<>>, r |-> a], BnBitLen(a) \div 2)
    IN  <<st.root, st.r>>

FZero == [m |-> <<>>, e |-> 0]

\* the double nearest to (M + f) * 2^E, ties to even, where 0 <= f < 1 and f > 0
\* exactly when sticky; with sticky set M has more than MantBits + 1 bits
FRound(M, E, sticky) ==
    LET len == BnBitLen(M)
    IN  IF M = <<>> THEN FZero
        ELSE IF len <= MantBits THEN [m |-> BnShl(M, MantBits - len), e |-> E - (MantBits - len)]
        ELSE LET sh == len - MantBits
                 q == BnShr(M, sh)
                 low == BnSub(M, BnShl(q, sh))
                 half == BnShl(<<1>>, sh - 1)
                 up == IF BnLess(half, low) THEN TRUE
                       ELSE IF BnLess(low, half) THEN FALSE
                       ELSE sticky \/ BnIsOdd(q)
                 r == IF up THEN BnAdd(q, <<1>>) ELSE q
             IN  IF BnBitLen(r) > MantBits
                 THEN [m |-> BnShr(r, 1), e |-> E + sh + 1]
                 ELSE [m |-> r, e |-> E + sh]

FFromInt(n) == FRound(BnFromInt(n), 0, FALSE)

\* the exact sum M * 2^E of two doubles given as mantissa and exponent
ExactSum(m1, e1, m2, e2) ==
    LET e == IF e1 < e2 THEN e1 ELSE e2
    IN  <<BnAdd(BnShl(m1, e1 - e), BnShl(m2, e2 - e)), e>>

FarBelow == 2 * MantBits + 8

FAdd(x, y) ==
    IF x.m = <<>> THEN y
    ELSE IF y.m = <<>> THEN x
    ELSE IF x.e - y.e > FarBelow THEN x
    ELSE IF y.e - x.e > FarBelow THEN y
    ELSE LET s == ExactSum(x.m, x.e, y.m, y.e) IN FRound(s[1], s[2], FALSE)

FMul(x, y) ==
    IF x.m = <<>> \/ y.m = <<>> THEN FZero
    ELSE FRound(BnMul(x.m, y.m), x.e + y.e, FALSE)

\* fma(x, y, z): x * y + z rounded once
FFma(x, y, z) ==
    IF x.m = <<>> \/ y.m = <<>> THEN z
    ELSE IF z.m = <<>> THEN FMul(x, y)
    ELSE LET s == ExactSum(BnMul(x.m, y.m), x.e + y.e, z.m, z.e)
         IN  FRound(s[1], s[2], FALSE)

FDiv(x, y) ==
    IF x.m = <<>> THEN FZero
    ELSE LET qr == BnDivMod(BnShl(x.m, MantBits + 3), y.m)
         IN  FRound(qr[1], x.e - y.e - (MantBits + 3), qr[2] # <<>>)

FSqrt(x) ==
    IF x.m = <<>> THEN FZero
    ELSE LET k == IF (x.e % 2) = 0 THEN MantBits + 5 ELSE MantBits + 6
             sr == BnSqrtRem(BnShl(x.m, k))
         IN  FRound(sr[1], (x.e - k) \div 2, sr[2] # <<>>)

\* x < y
FLess(x, y) ==
    IF y.m = <<>> THEN FALSE
    ELSE IF x.m = <<>> THEN TRUE
    ELSE IF x.e # y.e THEN x.e < y.e
    ELSE BnLess(x.m, y.m)

FOne == FFromInt(1)

(***************************************************************************)
(* similarity_score: TfidfVectorizer.fit_transform on templates + [clause] *)
(* and cosine_similarity of the last row with the template rows            *)
(***************************************************************************)

Template1 == <<"E", "i", "t", "h", "e", "r", " ", "p", "a", "r", "t", "y", " ", "m",
    "a", "y", " ", "t", "e", "r", "m", "i", "n", "a", "t", "e", " ", "w", "i", "t",
    "h", " ", "3", "0", " ", "d", "a", "y", "s", " ", "w", "r", "i", "t", "t", "e",
    "n", " ", "n", "o", "t", "i", "c", "e", ".">>

Template2 == <<"L", "i", "a", "b", "i", "l", "i", "t", "y", " ", "i", "s", " ", "l",
    "i", "m", "i", "t", "e", "d", " ", "t", "o", " ", "d", "i", "r", "e", "c", "t",
    " ", "d", "a", "m", "a", "g", "e", "s", " ", "o", "n", "l", "y", ".">>

Template3 == <<"C", "r", "e", "a", "t", "o", "r", " ", "r", "e", "t", "a", "i", "n",
    "s", " ", "i", "n", "t", "e", "l", "l", "e", "c", "t", "u", "a", "l", " ", "p",
    "r", "o", "p", "e", "r", "t", "y", " ", "o", "w", "n", "e", "r", "s", "h", "i",
    "p", ".">>

Template4 == <<"D", "i", "s", "p", "u", "t", "e", "s", " ", "w", "i", "l", "l", " ",
    "b", "e", " ", "r", "e", "s", "o", "l", "v", "e", "d", " ", "b", "y", " ", "m",
    "u", "t", "u", "a", "l", " ", "a", "r", "b", "i", "t", "r", "a", "t", "i", "o",
    "n", ".">>

Template5 == <<"C", "o", "n", "t", "r", "a", "c", "t", " ", "w", "i", "l", "l", " ",
    "n", "o", "t", " ", "a", "u", "t", "o", "-", "r", "e", "n", "e", "w", " ", "w",
    "i", "t", "h", "o", "u", "t", " ", "c", "o", "n", "s", "e", "n", "t", ".">>

ClauseArbitration == <<"D", "i", "s", "p", "u", "t", "e", "s", " ", "w", "i", "l", "l",
    " ", "b", "e", " ", "r", "e", "s", "o", "l", "v", "e", "d", " ", "b", "y", " ",
    "a", "r", "b", "i", "t", "r", "a", "t", "i", "o", "n", " ", "i", "n", " ", "t",
    "h", "e", " ", "l", "o", "c", "a", "l", " ", "j", "u", "r", "i", "s", "d", "i",
    "c", "t", "i", "o", "n", ".">>

ClauseRenewal == <<"C", "o", "n", "t", "r", "a", "c", "t", " ", "w", "i", "l", "l",
    " ", "a", "u", "t", "o", "m", "a", "t", "i", "c", "a", "l", "l", "y", " ", "r",
    "e", "n", "e", "w", " ", "w", "i", "t", "h", "o", "u", "t", " ", "f", "u", "r",
    "t", "h", "e", "r", " ", "n", "o", "t", "i", "c", "e", ".">>

templates == <<Template1, Template2, Template3, Template4, Template5>>

\* \w of the token pattern, after lowercasing, on ASCII text
WordChars == {LowerLetters[k] : k \in 1..Len(LowerLetters)}
             \cup {Digits[k] : k \in 1..Len(Digits)} \cup {"_"}

\* the tokens of (?u)\b\w\w+\b on the lowercased text, from position p on: the maximal
\* runs of word characters that are at least two characters long
RECURSIVE TokensFrom(_, _)
TokensFrom(s, p) ==
    LET starts == {i \in p..Len(s) : s[i] \in WordChars}
    IN  IF starts = {} THEN <<>>
        ELSE LET b == Min(starts)
                 e == Min({j \in b..(Len(s) + 1) : j > Len(s) \/ s[j] \notin WordChars}) - 1
             IN  (IF e > b THEN <<SubSeq(s, b, e)>> ELSE <<>>) \o TokensFrom(s, e + 1)

Tokens(s) == TokensFrom(Lower(s), 1)

\* the order of code points among the word characters
CharOrder == Digits \o <<"_">> \o LowerLetters

CharRank == [c \in WordChars |-> CHOOSE k \in 1..Len(CharOrder) : CharOrder[k] = c]

\* a < b as Python strings
StrLess(a, b) ==
    LET n == IF Len(a) < Len(b) THEN Len(a) ELSE Len(b)
        diff == {k \in 1..n : a[k] # b[k]}
    IN  IF diff = {} THEN Len(a) < Len(b)
        ELSE CharRank[a[Min(diff)]] < CharRank[b[Min(diff)]]

\* vocabulary_: the distinct terms of the documents, sorted
Vocabulary(docTokens) ==
    LET terms == UNION {{docTokens[d][k] : k \in 1..Len(docTokens[d])} : d \in 1..Len(docTokens)}
        Rank(t) == Cardinality({u \in terms : StrLess(u, t)}) + 1
    IN  [i \in 1..Cardinality(terms) |-> CHOOSE t \in terms : Rank(t) = i]

\* a row of the sparse count matrix: the columns of the terms the document holds, in
\* increasing order, each with the number of occurrences; terms outside the vocabulary
\* are not counted
CountRow(tokens, vocab) ==
    LET Occurrences(j) == Cardinality({k \in 1..Len(tokens) : tokens[k] = vocab[j]})
        cols == {j \in 1..Len(vocab) : Occurrences(j) > 0}
        Col(i) == CHOOSE j \in cols : Cardinality({c \in cols : c < j}) = i - 1
    IN  [i \in 1..Cardinality(cols) |-> [j |-> Col(i), v |-> Occurrences(Col(i))]]

HasCol(row, j) == \E i \in 1..Len(row) : row[i].j = j

\* np.log(7 / (df + 1)) for the six documents, smooth_idf adding one to both
LogRatio(df) ==
    CASE df = 1 -> [m |-> <<15712, 23914, 11588, 160>>, e |-> -52]
      [] df = 2 -> [m |-> <<11930, 19989, 29761, 216>>, e |-> -53]
      [] df = 3 -> [m |-> <<16592, 15584, 8573, 143>>, e |-> -53]
      [] df = 4 -> [m |-> <<13455, 12838, 8971, 172>>, e |-> -54]
      [] df = 5 -> [m |-> <<21163, 16515, 27862, 157>>, e |-> -55]
      [] df = 6 -> FZero

\* idf = np.log(n_samples / df) + 1
IdfTable == [df \in 1..(Len(templates) + 1) |-> FAdd(LogRatio(df), FOne)]

\* fit: CountVectorizer learns the vocabulary and counts, TfidfTransformer.fit the idf
FitCounts(docs) ==
    LET toks == [d \in 1..Len(docs) |-> Tokens(docs[d])]
        vocab == Vocabulary(toks)
    IN  [d \in 1..Len(docs) |-> CountRow(toks[d], vocab)]

Fit(docs) ==
    LET toks == [d \in 1..Len(docs) |-> Tokens(docs[d])]
        vocab == Vocabulary(toks)
        X == [d \in 1..Len(docs) |-> CountRow(toks[d], vocab)]
        Df(j) == Cardinality({d \in 1..Len(docs) : HasCol(X[d], j)})
    IN  [vocabulary |-> vocab, idf |-> [j \in 1..Len(vocab) |-> IdfTable[Df(j)]]]

\* sum_ += x * x over the row, in order; one rounding for each step when the build
\* contracts the multiply-add, else two
RECURSIVE SumSquaresFrom(_, _, _, _)
SumSquaresFrom(row, i, acc, fma) ==
    IF i > Len(row) THEN acc
    ELSE SumSquaresFrom(row, i + 1,
                        IF fma THEN FFma(row[i].v, row[i].v, acc)
                        ELSE FAdd(acc, FMul(row[i].v, row[i].v)),
                        fma)

\* inplace_csr_row_normalize_l2 on one row
NormalizeRow(row, fma) ==
    LET sum == SumSquaresFrom(row, 1, FZero, fma)
        norm == FSqrt(sum)
    IN  IF sum.m = <<>> THEN row
        ELSE [i \in 1..Len(row) |-> [j |-> row[i].j, v |-> FDiv(row[i].v, norm)]]

Normalize(row, fma) == NormalizeRow(row, fma)

\* TfidfTransformer.transform: counts times idf, then each row l2-normalized
Transform(X, idf, fma) ==
    [d \in 1..Len(X) |->
        Normalize([i \in 1..Len(X[d]) |->
                      [j |-> X[d][i].j, v |-> FMul(FFromInt(X[d][i].v), idf[X[d][i].j])]],
                  fma)]

Entry(row, j) == row[CHOOSE i \in 1..Len(row) : row[i].j = j].v

\* one entry of the sparse product a . b^T: sums += v * b over the columns of a, in order
RECURSIVE DotFrom(_, _, _, _, _)
DotFrom(a, b, i, acc, fma) ==
    IF i > Len(a) THEN acc
    ELSE IF ~HasCol(b, a[i].j) THEN DotFrom(a, b, i + 1, acc, fma)
    ELSE DotFrom(a, b, i + 1,
                 IF fma THEN FFma(a[i].v, Entry(b, a[i].j), acc)
                 ELSE FAdd(acc, FMul(a[i].v, Entry(b, a[i].j))),
                 fma)

Dot(a, b, fma) == DotFrom(a, b, 1, FZero, fma)

\* max(sims[0])
RECURSIVE FMax(_)
FMax(xs) ==
    IF Len(xs) = 1 THEN xs[1]
    ELSE LET rest == FMax(Tail(xs))
         IN  IF FLess(xs[1], rest) THEN rest ELSE xs[1]

\* the clauses scored
SimClauses == {Template1, Template2, Template3, Template4, Template5,
               ParaHigh, ParaMedium, ParaLow, ClauseArbitration, ClauseRenewal}

SimInit ==
    /\ simClause \in SimClauses
    /\ fused \in BOOLEAN
    /\ simPc = "call"
    /\ vectorizer = Unfitted
    /\ counts = <<>>
    /\ tfidf = <<>>
    /\ normed = <<>>
    /\ sims = <<>>
    /\ score = FZero
    /\ SegIdle
    /\ RuleIdle
    /\ PipeIdle
    /\ ConcIdle

\* line 157, fit: vocabulary_ and idf_ of the vectorizer are set anew
FitStep ==
    /\ simPc = "call"
    /\ vectorizer' = Fit(templates \o <<simClause>>)
    /\ counts' = FitCounts(templates \o <<simClause>>)
    /\ simPc' = "fitted"
    /\ UNCHANGED <<simClause, fused, tfidf, normed, sims, score, notSim>>

\* line 157, transform
TransformStep ==
    /\ simPc = "fitted"
    /\ tfidf' = Transform(counts, vectorizer.idf, fused)
    /\ simPc' = "transformed"
    /\ UNCHANGED <<simClause, fused, vectorizer, counts, normed, sims, score, notSim>>

\* line 158, cosine_similarity: both arguments normalized again
NormalizeStep ==
    /\ simPc = "transformed"
    /\ normed' = [d \in 1..Len(tfidf) |-> Normalize(tfidf[d], fused)]
    /\ simPc' = "normalized"
    /\ UNCHANGED <<simClause, fused, vectorizer, counts, tfidf, sims, score, notSim>>

\* line 158, the product of the last row with the rows before it
DotStep ==
    /\ simPc = "normalized"
    /\ sims' = [t \in 1..(Len(normed) - 1) |-> Dot(normed[Len(normed)], normed[t], fused)]
    /\ simPc' = "multiplied"
    /\ UNCHANGED <<simClause, fused, vectorizer, counts, tfidf, normed, score, notSim>>

\* line 159
MaxStep ==
    /\ simPc = "multiplied"
    /\ score' = FMax(sims)
    /\ simPc' = "returned"
    /\ UNCHANGED <<simClause, fused, vectorizer, counts, tfidf, normed, sims, notSim>>

\* lines 158-159 on the transformed rows: normalize, multiply, take the maximum
CosineMax(rows, fma) ==
    CHOOSE s \in {FMax([t \in 1..(Len(n) - 1) |-> Dot(n[Len(n)], n[t], fma)]) :
                     n \in {[d \in 1..Len(rows) |-> Normalize(rows[d], fma)]}} : TRUE

\* the transform of line 157 and lines 158-159, from the counts and the fitted idf
ScoreRows(X, idf, fma) ==
    CHOOSE s \in {CosineMax(rows, fma) : rows \in {Transform(X, idf, fma)}} : TRUE

\* lines 155-159
similarity_score(c, fma) ==
    CHOOSE s \in {ScoreRows(X, v.idf, fma) : X \in {FitCounts(templates \o <<c>>)},
                                               v \in {Fit(templates \o <<c>>)}} : TRUE

SimNext == FitStep \/ TransformStep \/ NormalizeStep \/ DotStep \/ MaxStep

SpecSimilarity == SimInit /\ [][SimNext]_vars

\* C10: similarity_score returns a value in [0, 1], and for the literal text of
\* reference template 1 it returns exactly 1.0.
C10_ScoreInUnitInterval ==
    simPc = "returned" =>
        /\ ~FLess(FOne, score)
        /\ (simClause = Template1 => score = FOne)

(***************************************************************************)
(* Two runs of the script at the same time. Each run executes the script   *)
(* from the top with names of its own; the working directory, with         *)
(* report.pdf and logs/, is the one of the server process.                 *)
(***************************************************************************)

MaxSecond == 1

\* the clauses of the documents uploaded
ConcDocs == {<<ParaHigh>>, <<ParaLow, ParaMedium>>}

ConcClauses == UNION {{d[k] : k \in 1..Len(d)} : d \in ConcDocs}

ConcInit ==
    /\ rPc = [r \in Runs |-> "start"]
    /\ rClauses \in [Runs -> ConcDocs]
    /\ rIdx = [r \in Runs |-> 0]
    /\ rHigh = [r \in Runs |-> 0]
    /\ rVectorizer = [r \in Runs |-> Unfitted]
    /\ rCounts = [r \in Runs |-> <<>>]
    /\ rScores = [r \in Runs |-> <<>>]
    /\ rReport = [r \in Runs |-> <<>>]
    /\ rDownload = [r \in Runs |-> <<>>]
    /\ rLogName = [r \in Runs |-> 0]
    /\ reportPdf = <<>>
    /\ logFiles = [s \in 0..MaxSecond |-> [risk |-> "none", clauses |-> 0]]
    /\ now = 0
    /\ SegIdle
    /\ RuleIdle
    /\ PipeIdle
    /\ SimIdle

\* line 153 and lines 188-199: the run makes its vectorizer and starts its report
Begin(r) ==
    /\ rPc[r] = "start"
    /\ rVectorizer' = [rVectorizer EXCEPT ![r] = Unfitted]
    /\ rReport' = [rReport EXCEPT ![r] = ReportHeader]
    /\ rPc' = [rPc EXCEPT ![r] = "loop"]
    /\ UNCHANGED <<rClauses, rIdx, rHigh, rCounts, rScores, rDownload, rLogName,
                   reportPdf, logFiles, now, notConc>>

\* lines 201-207 and the fit of line 157, on the vectorizer of the run
FitClause(r) ==
    /\ rPc[r] = "loop"
    /\ rIdx[r] < Len(rClauses[r])
    /\ LET docs == templates \o <<rClauses[r][rIdx[r] + 1]>>
       IN  /\ rVectorizer' = [rVectorizer EXCEPT ![r] = Fit(docs)]
           /\ rCounts' = [rCounts EXCEPT ![r] = FitCounts(docs)]
    /\ rPc' = [rPc EXCEPT ![r] = "fitted"]
    /\ UNCHANGED <<rClauses, rIdx, rHigh, rScores, rReport, rDownload, rLogName,
                   reportPdf, logFiles, now, notConc>>

\* the transform of line 157, lines 158-159 and the rest of the loop body to line 227
ScoreClause(r) ==
    /\ rPc[r] = "fitted"
    /\ LET cl == rClauses[r][rIdx[r] + 1]
           rs == detect_risks(cl)
           lvl == risk_level(rs)
           sim == ScoreRows(rCounts[r], rVectorizer[r].idf, fused)
       IN  /\ rScores' = [rScores EXCEPT ![r] = Append(@, sim)]
           /\ rHigh' = [rHigh EXCEPT ![r] = IF lvl = "High" THEN @ + 1 ELSE @]
           /\ rReport' = [rReport EXCEPT ![r] = @ \o ReportLine(rIdx[r], lvl, rs)]
    /\ rIdx' = [rIdx EXCEPT ![r] = @ + 1]
    /\ rPc' = [rPc EXCEPT ![r] = "loop"]
    /\ UNCHANGED <<rClauses, rVectorizer, rCounts, rDownload, rLogName,
                   reportPdf, logFiles, now, notConc>>

\* lines 229-237: create_pdf(report, "report.pdf")
CreatePdf(r) ==
    /\ rPc[r] = "loop"
    /\ rIdx[r] = Len(rClauses[r])
    /\ reportPdf' = create_pdf(rReport[r])
    /\ rPc' = [rPc EXCEPT ![r] = "created"]
    /\ UNCHANGED <<rClauses, rIdx, rHigh, rVectorizer, rCounts, rScores, rReport,
                   rDownload, rLogName, logFiles, now, notConc>>

\* lines 238-239: report.pdf is opened and handed to the download button
OpenPdf(r) ==
    /\ rPc[r] = "created"
    /\ rDownload' = [rDownload EXCEPT ![r] = reportPdf]
    /\ rPc' = [rPc EXCEPT ![r] = "opened"]
    /\ UNCHANGED <<rClauses, rIdx, rHigh, rVectorizer, rCounts, rScores, rReport,
                   rLogName, reportPdf, logFiles, now, notConc>>

\* lines 241-246 with save_log, lines 174-179: the file is named by the second
SaveLog(r) ==
    /\ rPc[r] = "opened"
    /\ logFiles' = [logFiles EXCEPT ![now] = [risk |-> Overall(rHigh[r]),
                                               clauses |-> Len(rClauses[r])]]
    /\ rLogName' = [rLogName EXCEPT ![r] = now]
    /\ rPc' = [rPc EXCEPT ![r] = "done"]
    /\ UNCHANGED <<rClauses, rIdx, rHigh, rVectorizer, rCounts, rScores, rReport,
                   rDownload, reportPdf, now, notConc>>

\* datetime.now() moves to the next second
Tick ==
    /\ now < MaxSecond
    /\ now' = now + 1
    /\ UNCHANGED <<rPc, rClauses, rIdx, rHigh, rVectorizer, rCounts, rScores, rReport,
                   rDownload, rLogName, reportPdf, logFiles, notConc>>

ConcNext ==
    \/ \E r \in Runs : Begin(r)
    \/ \E r \in Runs : FitClause(r)
    \/ \E r \in Runs : ScoreClause(r)
    \/ \E r \in Runs : CreatePdf(r)
    \/ \E r \in Runs : OpenPdf(r)
    \/ \E r \in Runs : SaveLog(r)
    \/ Tick

SpecConcurrent == ConcInit /\ [][ConcNext]_vars

\* the score of each clause when it is scored alone
IsolatedScore == [c \in ConcClauses |-> similarity_score(c, FALSE)]

\* every score a run has computed is the score of that clause in isolation
ScoresIsolated ==
    \A r \in Runs : \A k \in 1..Len(rScores[r]) :
        rScores[r][k] = IsolatedScore[rClauses[r][k]]

\* what a run reads back from the files is what that run wrote
FilesOwned ==
    \A r \in Runs :
        /\ rPc[r] \in {"opened", "done"} => rDownload[r] = create_pdf(rReport[r])
        /\ rPc[r] = "done" =>
               logFiles[rLogName[r]] = [risk |-> Overall(rHigh[r]),
                                        clauses |-> Len(rClauses[r])]

\* C7: no mutable entity is shared across concurrent runs: under any interleaving of two
\* runs each clause's similarity score is the score it gets in isolation, and nothing
\* a run produces is changed by the other run.
C7_NoSharedMutableState == ScoresIsolated /\ FilesOwned

====
